---- MODULE Spec2Model ----
(***************************************************************************)
(* A model of the llm_api package: the LlmApi client facade (abc.py), the  *)
(* four provider adapters (anthropic_api.py, groq_api.py, ollama_api.py,   *)
(* openrouter_api.py) and the Anthropic request translation.               *)
(*                                                                         *)
(* The repository holds two package trees.  "llm_api" is the current one.  *)
(* "src.llm_api" is an older tree that holds only the OpenRouter adapter   *)
(* and the base class it was written against.  The OpenRouter adapter of   *)
(* the current tree still has the body of the older one.                   *)
(*                                                                         *)
(* The model covers the bodies of the constructors and methods.  Python's  *)
(* refusal to instantiate a class that leaves an abstract member undefined *)
(* is not modelled: instances are obtained the way the test suites obtain  *)
(* them, by running __init__.                                              *)
(*                                                                         *)
(* Optional values (Python's None) are sequences of length at most one.    *)
(* Costs and prices are integers; token counts are multiples of one        *)
(* million, for which tokens / 1_000_000 * price is exact.                 *)
(***************************************************************************)
EXTENDS Integers, Sequences, FiniteSets, TLC

None == <<>>
Some(v) == <<v>>

\* ---------------------------------------------------------------- bounds
\* Completion calls and direct handle_usage calls made on one instance.
MaxCalls == 3
\* Longest message sequence handed to the Anthropic translation.
MaxMessages == 3
\* Longest content list of an Anthropic response.
MaxBlocks == 2
\* Threads that use one instance at the same time.
NThreads == 2

\* ------------------------------------------------------ program constants
max_tries == 3
retry_delay == 30
MTOK == 1000000

\* ------------------------------------------------------------ input sets
Adapters == {"AnthropicApi", "GroqApi", "OllamaApi", "OpenRouterAPI"}
Packages == {"llm_api", "src.llm_api"}
\* os.getenv(name): unset, set to the empty string, set to a key.
EnvValues == {None, Some(""), Some("mock_api_key")}
Models == {"claude-3-5-sonnet-20240620", "test"}
BaseUrls == {None, Some("http://localhost")}
\* Usage.cost, usage["total_cost"]: never negative.
CostValues == {0, 3, 5}
Tags == {None, Some("test tag")}

VARIABLES
    pkg,        \* the package tree the class is imported from
    cls,        \* the adapter class
    env,        \* current value of the credential environment variable
    ctor,       \* outcome of the constructor call, and the env it saw
    self,       \* None, or Some(the instance)
    call,       \* the completion call in progress or last finished
    usage_log,  \* costs of the successful calls and direct handle_usage calls
    n_raised,   \* completion calls that ended by raising
    xl,         \* the Anthropic translation under test: arguments and result
    threads     \* threads inside handle_usage on the one instance

vars == <<pkg, cls, env, ctor, self, call, usage_log, n_raised, xl, threads>>

total_cost == self[1].total_cost

\* ------------------------------------------------------------ construction

\* abc.py: LlmApi.__init__ of the current tree.  <<outcome, instance>>.
LlmApi__init__(model, api_key_name, timeout, getenv) ==
    LET api_key == getenv
    IN IF api_key = None \/ api_key = Some("")
       THEN <<"ConfigurationError", None>>
       ELSE <<"ok", Some([model |-> model, api_key_name |-> api_key_name,
                          timeout |-> timeout, total_cost |-> 0,
                          api_key |-> api_key[1]])>>

\* src/llm_api/abc.py: LlmApi.__init__ of the older tree: no credential.
LegacyLlmApi__init__(model, timeout) ==
    <<"ok", Some([model |-> model, timeout |-> timeout])>>

\* openrouter_api.py: OpenRouterAPI.__init__.  super().__init__(model=model)
\* lacks the api_key_name the current base class requires: TypeError.  Under
\* the older base class it succeeds and the key is read without a check.
OpenRouterAPI__init__(model, getenv) ==
    IF pkg = "llm_api"
    THEN <<"TypeError", None>>
    ELSE LET base == LegacyLlmApi__init__(model, 5)
         IN <<"ok", Some([model |-> base[2][1].model,
                          timeout |-> base[2][1].timeout,
                          total_cost |-> 0,
                          _api_key |-> getenv])>>

\* ollama_api.py: OllamaApi.__init__: base_url is checked first.
OllamaApi__init__(model, base_url, getenv) ==
    IF base_url = None
    THEN <<"ConfigurationError", None>>
    ELSE LlmApi__init__(model, "OLLAMA_API_KEY", 5, getenv)

\* anthropic_api.py: AnthropicApi.__init__
AnthropicApi__init__(model, getenv) ==
    LlmApi__init__(model, "ANTHROPIC_API_KEY", 5, getenv)

\* groq_api.py: GroqApi.__init__
GroqApi__init__(model, getenv) ==
    LlmApi__init__(model, "GROQ_API_KEY", 5, getenv)

IdleCall ==
    [pc |-> "idle", try_number |-> 0, retry_delay |-> 0, attempts |-> 0,
     sleeps |-> <<>>, outcomes |-> <<>>, handle_usage_calls |-> 0,
     total_before |-> 0, tag |-> None, usage |-> None,
     response |-> None, error |-> None,
     args |-> None, prompt |-> None, request |-> None, warnings |-> <<>>,
     result |-> None]

\* No translation is under test.
NoTranslation == [pc |-> "none"]

\* No thread is inside handle_usage: the instance is used by one thread.
NoThreads == <<>>

\* The constructor call of the class under test.
Construct(model, base_url) ==
    /\ ctor.result = "pending"
    /\ LET r == CASE cls = "AnthropicApi" -> AnthropicApi__init__(model, env)
                  [] cls = "GroqApi" -> GroqApi__init__(model, env)
                  [] cls = "OllamaApi" -> OllamaApi__init__(model, base_url, env)
                  [] cls = "OpenRouterAPI" -> OpenRouterAPI__init__(model, env)
       IN /\ ctor' = [result |-> r[1], env |-> env, base_url |-> base_url]
          /\ self' = r[2]
    /\ UNCHANGED <<pkg, cls, env, call, usage_log, n_raised, xl, threads>>

\* The environment changes under the program after the constructor ran and
\* before the instance is first used (os.environ, monkeypatching in tests).
SetEnv(v) ==
    /\ v # env
    /\ ctor.result # "pending"
    /\ call.pc = "idle"
    /\ usage_log = <<>>
    /\ env' = v
    /\ UNCHANGED <<pkg, cls, ctor, self, call, usage_log, n_raised, xl, threads>>

Rest == {"idle", "returned", "raised"}

\* Room left under the bound on the operations made on one instance.
Budget == Len(usage_log) + n_raised < MaxCalls

\* ------------------------------------------------------------- accounting

\* Mutant: the cost overwrites the running total instead of adding to it.
handle_usage_assigns(inst, input_tokens, output_tokens, cost, tag) ==
    IF cost # None
    THEN [inst EXCEPT !.total_cost = cost[1]]
    ELSE inst

\* Mutant: an absent cost is taken for a reset of the running total.
handle_usage_resets_on_none(inst, input_tokens, output_tokens, cost, tag) ==
    IF cost # None
    THEN [inst EXCEPT !.total_cost = @ + cost[1]]
    ELSE [inst EXCEPT !.total_cost = 0]

\* abc.py: LlmApi.handle_usage: the instance afterwards.
handle_usage(inst, input_tokens, output_tokens, cost, tag) ==
    IF cost # None
    THEN [inst EXCEPT !.total_cost = @ + cost[1]]
    ELSE inst

\* Mutant: the reported cost overwrites the running total.
OpenRouter_handle_usage_assigns(inst, response, tag) ==
    LET usage == response.usage
    IN IF usage = None
       THEN inst
       ELSE [inst EXCEPT !.total_cost = usage[1].total_cost]

\* openrouter_api.py: OpenRouterAPI.handle_usage: the instance afterwards.
OpenRouter_handle_usage(inst, response, tag) ==
    LET usage == response.usage
    IN IF usage = None
       THEN inst
       ELSE [inst EXCEPT !.total_cost = @ + usage[1].total_cost]

\* The cost a provider response of OpenRouter reports, if any.
OpenRouterReportedCost(response) ==
    IF response.usage = None THEN None ELSE Some(response.usage[1].total_cost)

\* A caller invokes handle_usage on the instance directly (test_abc.py).
DirectHandleUsage(input_tokens, output_tokens, cost, tag) ==
    /\ self # None
    /\ cls # "OpenRouterAPI"
    /\ call.pc \in Rest
    /\ Budget
    /\ self' = Some(handle_usage(self[1], input_tokens, output_tokens, cost, tag))
    /\ usage_log' = Append(usage_log, cost)
    /\ UNCHANGED <<pkg, cls, env, ctor, call, n_raised, xl, threads>>

\* ---------------------------------------------------------- provider data

\* Errors the SDK transports raise; the last is outside the except clauses.
SdkErrors == {"RateLimitError", "BadRequestError", "APITimeoutError",
              "APIConnectionError"}

\* Mutant: the except clause catches every error of the SDK.
AnthropicCaught_everything == SdkErrors

\* The except clauses of the retry loops (anthropic_api.py, groq_api.py).
AnthropicCaught == {"RateLimitError", "BadRequestError", "APITimeoutError"}
GroqCaught == {"RateLimitError", "BadRequestError", "APITimeoutError"}
\* Errors of the OpenRouter HTTP call: requests.post, raise_for_status.
HttpErrors == {"ConnectionError", "HTTPError"}

Error(e) == [type |-> "error", error |-> e]

\* anthropic.types: TextBlock and ToolUseBlock, the content blocks.
TextBlock(text) == [text |-> text, type |-> "text"]
ToolUseBlock(name) ==
    [id |-> "toolu_1", input |-> [test_argument |-> "x"], name |-> name,
     type |-> "tool_use"]
ContentBlocks == {TextBlock("A"), TextBlock("B"), ToolUseBlock("test")}
ContentLists == UNION {[1..n -> ContentBlocks] : n \in 0..MaxBlocks}
TokenCounts == {0, MTOK, 2 * MTOK}

\* anthropic.types.Message: content, and usage, which is always present.
AnthropicMessage(content, input_tokens, output_tokens) ==
    [type |-> "ok", content |-> content,
     usage |-> [input_tokens |-> input_tokens, output_tokens |-> output_tokens]]

AnthropicOutcomes ==
    {AnthropicMessage(<<TextBlock("A")>>, i, 2 * i) : i \in {0, MTOK}}
    \cup {Error(e) : e \in SdkErrors}

\* Every content list and every pair of token counts, with one error that
\* is retried and one that is not.
AnthropicOutcomesWide ==
    {AnthropicMessage(content, MTOK, 2 * MTOK) : content \in ContentLists}
    \cup {AnthropicMessage(<<TextBlock("A")>>, i, o) :
              i \in TokenCounts, o \in TokenCounts}
    \cup {Error(e) : e \in {"RateLimitError", "APIConnectionError"}}

\* ChatCompletion of groq and openai: usage is Optional.
CompletionOutcomes ==
    {[type |-> "ok", usage |-> u] :
        u \in {None} \cup {Some([prompt_tokens |-> i, completion_tokens |-> o]) :
                               i \in {MTOK}, o \in {2 * MTOK}}}
    \cup {Error(e) : e \in SdkErrors}

\* types_response.Response of OpenRouter, as far as the adapter reads it.
OpenRouterOutcomes ==
    {[type |-> "ok", usage |-> u, has_message |-> m] :
        u \in {None} \cup {Some([prompt_tokens |-> 2, completion_tokens |-> 1,
                                 total_tokens |-> 3, total_cost |-> c]) :
                               c \in CostValues},
        m \in BOOLEAN}
    \cup {Error(e) : e \in HttpErrors}

Usage(input_tokens, output_tokens, cost, tag) ==
    [input_tokens |-> input_tokens, output_tokens |-> output_tokens,
     cost |-> cost, tag |-> tag]

\* anthropic_api.py: PRICING_PER_MTOK.get(model, {}).get(input_output, None)
PRICING_PER_MTOK(model, input_output) ==
    IF model = "claude-3-5-sonnet-20240620"
    THEN Some([input |-> 3, output |-> 15][input_output])
    ELSE None

\* Mutant: output tokens are charged at the input price.
_token_cost_input_price(inst, tokens, input_output) ==
    LET price_per_mtok == PRICING_PER_MTOK(inst.model, "input")
    IN IF price_per_mtok = None
       THEN 0
       ELSE (tokens \div MTOK) * price_per_mtok[1]

\* Mutant: a model without a price is charged 1 per million tokens.
_token_cost_default_price(inst, tokens, input_output) ==
    LET price_per_mtok == PRICING_PER_MTOK(inst.model, input_output)
    IN IF price_per_mtok = None
       THEN (tokens \div MTOK) * 1
       ELSE (tokens \div MTOK) * price_per_mtok[1]

\* anthropic_api.py: AnthropicApi._token_cost
_token_cost(inst, tokens, input_output) ==
    LET price_per_mtok == PRICING_PER_MTOK(inst.model, input_output)
    IN IF price_per_mtok = None
       THEN 0
       ELSE (tokens \div MTOK) * price_per_mtok[1]

\* anthropic_api.py: AnthropicApi.parse_usage
Anthropic_parse_usage(inst, message, tag) ==
    LET input_tokens == message.usage.input_tokens
        output_tokens == message.usage.output_tokens
        input_cost == _token_cost(inst, input_tokens, "input")
        output_cost == _token_cost(inst, output_tokens, "output")
    IN Usage(input_tokens, output_tokens, Some(input_cost + output_cost), tag)

\* anthropic_api.py: the logger.warning calls of _token_cost that one
\* parse_usage makes: one for the input price, one for the output price.
NoPricingWarning(inst) == [kind |-> "no_pricing", model |-> inst.model]
_token_cost_warnings(inst, input_output) ==
    IF PRICING_PER_MTOK(inst.model, input_output) = None
    THEN <<NoPricingWarning(inst)>>
    ELSE <<>>
Anthropic_parse_usage_warnings(inst) ==
    _token_cost_warnings(inst, "input") \o _token_cost_warnings(inst, "output")

\* The logger.warning of the except clause of a retry loop.
RetryingWarning(delay) == [kind |-> "retrying", delay |-> delay]

\* A Python str is a sequence of pieces; the string is their concatenation.
\* JSON values: a string, or an object as its key/value pairs in order.
JsonStr(s) == [kind |-> "str", str |-> s]
JsonObj(pairs) == [kind |-> "obj", pairs |-> pairs]
Pair(key, value) == [key |-> key, value |-> value]
Quote(s) == "\"" \o s \o "\""

RECURSIVE Spaces(_)
Spaces(n) == IF n = 0 THEN "" ELSE " " \o Spaces(n - 1)
\* The line break and indentation json.dumps(indent=2) writes at a level.
Newline(level) == "\n" \o Spaces(2 * level)

RECURSIVE json_dumps_value(_, _)
RECURSIVE json_dumps_pairs(_, _)
RECURSIVE json_dumps_items(_, _)
\* json.dumps(value, ensure_ascii=False, indent=2), value written at a level.
json_dumps_value(value, level) ==
    IF value.kind = "str"
    THEN <<Quote(value.str)>>
    ELSE IF value.pairs = <<>>
         THEN <<"{}">>
         ELSE <<"{">> \o json_dumps_pairs(value.pairs, level + 1)
                  \o <<Newline(level), "}">>

json_dumps_pairs(pairs, level) ==
    LET item == <<Newline(level), Quote(Head(pairs).key), ": ">>
                    \o json_dumps_value(Head(pairs).value, level)
    IN IF Len(pairs) = 1
       THEN item
       ELSE item \o <<",">> \o json_dumps_pairs(Tail(pairs), level)

json_dumps_items(items, level) ==
    LET item == <<Newline(level)>> \o json_dumps_value(Head(items), level)
    IN IF Len(items) = 1
       THEN item
       ELSE item \o <<",">> \o json_dumps_items(Tail(items), level)

\* json.dumps(list, ensure_ascii=False, indent=2)
json_dumps(items) ==
    IF items = <<>>
    THEN <<"[]">>
    ELSE <<"[">> \o json_dumps_items(items, 1) \o <<Newline(0), "]">>

\* o.__dict__ of a content block: its fields in declaration order.
__dict__(o) ==
    IF o.type = "text"
    THEN JsonObj(<<Pair("text", JsonStr(o.text)), Pair("type", JsonStr(o.type))>>)
    ELSE JsonObj(<<Pair("id", JsonStr(o.id)),
                   Pair("input", JsonObj(<<Pair("test_argument",
                                               JsonStr(o.input.test_argument))>>)),
                   Pair("name", JsonStr(o.name)),
                   Pair("type", JsonStr(o.type))>>)

\* Mutant: a single text block is returned as text even when JSON was asked.
_parse_content_ignores_response_format(content, response_format) ==
    IF Len(content) = 1 /\ content[1].type = "text"
    THEN <<content[1].text>>
    ELSE json_dumps([i \in 1..Len(content) |-> __dict__(content[i])])

\* anthropic_api.py: AnthropicApi._parse_content
_parse_content(content, response_format) ==
    IF /\ response_format # Some("json")
       /\ Len(content) = 1
       /\ content[1].type = "text"
    THEN <<content[1].text>>
    ELSE json_dumps([i \in 1..Len(content) |-> __dict__(content[i])])

\* groq_api.py: GroqApi.parse_usage (completion.usage is present)
Groq_parse_usage(completion, tag) ==
    Usage(completion.usage[1].prompt_tokens,
          completion.usage[1].completion_tokens, Some(0), tag)

\* ollama_api.py: OllamaApi.parse_usage (completion.usage is present)
Ollama_parse_usage(completion, tag) ==
    Usage(completion.usage[1].prompt_tokens,
          completion.usage[1].completion_tokens, Some(0), tag)

\* ------------------------------------------- Anthropic request translation

\* types_request.py: Message, as far as the translation reads it: role and
\* content, and name when the key is present.
Contents == {"A", "B"}
Messages ==
    {[role |-> "system", content |-> c] : c \in Contents}
    \cup {[role |-> r, content |-> c] : r \in {"user", "assistant"}, c \in Contents}
    \cup {[role |-> r, content |-> c, name |-> "Erkki"] :
              r \in {"user", "assistant"}, c \in Contents}
MessageLists == UNION {[1..n -> Messages] : n \in 0..MaxMessages}
ToolChoices == {"auto", "required", "none"}

RECURSIVE join(_, _)
\* Python's sep.join(strings)
join(sep, strings) ==
    IF strings = <<>> THEN ""
    ELSE IF Len(strings) = 1 THEN strings[1]
    ELSE strings[1] \o sep \o join(sep, Tail(strings))

\* Mutant: every message goes to other_messages, system messages too.
RECURSIVE _extract_system_messages_keeps_system(_, _, _)
_extract_system_messages_keeps_system(messages, system_messages, other_messages) ==
    IF messages = <<>>
    THEN [system_prompt |-> join("\n", system_messages),
          other_messages |-> other_messages]
    ELSE LET message == Head(messages)
         IN IF message.role = "system"
            THEN _extract_system_messages_keeps_system(
                     Tail(messages), Append(system_messages, message.content),
                     Append(other_messages, message))
            ELSE _extract_system_messages_keeps_system(
                     Tail(messages), system_messages,
                     Append(other_messages, message))

RECURSIVE _extract_system_messages(_, _, _)
\* anthropic_api.py: AnthropicApi._extract_system_messages: the for loop over
\* the rest of the messages with the two lists built so far, then the result.
_extract_system_messages(messages, system_messages, other_messages) ==
    IF messages = <<>>
    THEN [system_prompt |-> join("\n", system_messages),
          other_messages |-> other_messages]
    ELSE LET message == Head(messages)
         IN IF message.role = "system"
            THEN _extract_system_messages(
                     Tail(messages), Append(system_messages, message.content),
                     other_messages)
            ELSE _extract_system_messages(
                     Tail(messages), system_messages,
                     Append(other_messages, message))

\* Mutant: the name is folded in without the ": " separator.
RECURSIVE _convert_message_name_fields_no_separator(_, _)
_convert_message_name_fields_no_separator(messages, converted_messages) ==
    IF messages = <<>>
    THEN converted_messages
    ELSE LET message == Head(messages)
         IN IF "name" \in DOMAIN message
            THEN _convert_message_name_fields_no_separator(
                     Tail(messages),
                     Append(converted_messages,
                            [content |-> message.name \o message.content,
                             role |-> message.role]))
            ELSE _convert_message_name_fields_no_separator(
                     Tail(messages), Append(converted_messages, message))

RECURSIVE _convert_message_name_fields(_, _)
\* anthropic_api.py: AnthropicApi._convert_message_name_fields: the for loop
\* over the rest of the messages with the list built so far.
_convert_message_name_fields(messages, converted_messages) ==
    IF messages = <<>>
    THEN converted_messages
    ELSE LET message == Head(messages)
         IN IF "name" \in DOMAIN message
            THEN _convert_message_name_fields(
                     Tail(messages),
                     Append(converted_messages,
                            [content |-> message.name \o ": " \o message.content,
                             role |-> message.role]))
            ELSE _convert_message_name_fields(
                     Tail(messages), Append(converted_messages, message))

\* Mutant: "none" is passed on as a mode of its own.
_convert_tool_choice_to_anthropic_format_passes_none(tool_choice) ==
    IF tool_choice = "required" THEN [type |-> "any"]
    ELSE IF tool_choice = "none" THEN [type |-> "none"]
    ELSE [type |-> "auto"]

\* anthropic_api.py: AnthropicApi._convert_tool_choice_to_anthropic_format
_convert_tool_choice_to_anthropic_format(tool_choice) ==
    IF tool_choice = "required" THEN [type |-> "any"] ELSE [type |-> "auto"]

\* anthropic_api.py: the "data conversion and juggling" that opens
\* AnthropicApi._response_from_messages_implementation.
Translate ==
    /\ xl.pc = "args"
    /\ LET converted_tool_choice ==
               _convert_tool_choice_to_anthropic_format(xl.tool_choice)
           extracted == _extract_system_messages(xl.messages, <<>>, <<>>)
           non_system_messages ==
               _convert_message_name_fields(extracted.other_messages, <<>>)
       IN xl' = [pc |-> "translated",
                 messages |-> xl.messages,
                 tool_choice |-> xl.tool_choice,
                 converted_tool_choice |-> converted_tool_choice,
                 system_prompt |-> extracted.system_prompt,
                 other_messages |-> extracted.other_messages,
                 non_system_messages |-> non_system_messages]
    /\ UNCHANGED <<pkg, cls, env, ctor, self, call, usage_log, n_raised, threads>>

\* -------------------------------------------------------- completion calls

\* The call ends by raising e to the caller.
Raise(c, e) ==
    /\ call' = [c EXCEPT !.pc = "raised", !.error = Some(e)]
    /\ n_raised' = n_raised + 1
    /\ UNCHANGED <<pkg, cls, env, ctor, self, usage_log, xl, threads>>

\* types_request.py: Tool and FunctionDescription; description is NotRequired.
ToolSchema == [type |-> "object"]
ToolWithDescription ==
    [type |-> "function",
     function |-> [description |-> "test function", name |-> "test",
                   parameters |-> ToolSchema]]
ToolWithoutDescription ==
    [type |-> "function",
     function |-> [name |-> "bare", parameters |-> ToolSchema]]
OtherTool ==
    [type |-> "function",
     function |-> [description |-> "other function", name |-> "other",
                   parameters |-> [type |-> "object", required |-> <<"x">>]]]
\* tools: None, an empty list, lists of one tool and of two tools.
ToolLists == {None, Some(<<>>), Some(<<ToolWithDescription>>),
              Some(<<ToolWithoutDescription>>),
              Some(<<OtherTool, ToolWithDescription>>),
              Some(<<ToolWithDescription, ToolWithoutDescription>>)}
ResponseFormats == {None, Some("json")}
\* The messages of the calls whose requests are examined.
RequestMessages ==
    {<<[role |-> "user", content |-> "A"]>>,
     <<[role |-> "system", content |-> "A"],
       [role |-> "user", content |-> "B", name |-> "Erkki"]>>}
\* The arguments of the calls that pass nothing but messages and a tag.
DefaultMessages == <<[role |-> "user", content |-> "A"]>>

RECURSIVE _convert_tools_loop(_, _)
\* anthropic_api.py: the for loop of _convert_tools_to_anthropic_format over
\* the rest of the tools; tool["function"]["description"] raises KeyError
\* when the key is absent.
_convert_tools_loop(tools, converted_tools) ==
    IF tools = <<>>
    THEN [raised |-> None, value |-> Some(converted_tools)]
    ELSE LET tool == Head(tools)
         IN IF "description" \notin DOMAIN tool.function
            THEN [raised |-> Some("KeyError"), value |-> None]
            ELSE _convert_tools_loop(
                     Tail(tools),
                     Append(converted_tools,
                            [input_schema |-> tool.function.parameters,
                             name |-> tool.function.name,
                             description |-> tool.function.description]))

\* anthropic_api.py: AnthropicApi._convert_tools_to_anthropic_format
_convert_tools_to_anthropic_format(tools) ==
    IF tools = None
    THEN [raised |-> None, value |-> None]
    ELSE _convert_tools_loop(tools[1], <<>>)

\* anthropic_api.py: completion_kwargs of the Anthropic loop.
Anthropic_completion_kwargs(inst, non_system_messages, system_prompt, tools, converted_tools, converted_tool_choice) ==
    LET completion_kwargs == [messages |-> non_system_messages,
                              system |-> system_prompt,
                              model |-> inst.model,
                              max_tokens |-> 4096]
    IN IF tools # None
       THEN completion_kwargs @@ [tools |-> converted_tools[1],
                                  tool_choice |-> converted_tool_choice]
       ELSE completion_kwargs

\* Mutant: an empty tool list is not forwarded.
Groq_kwargs_truthy_tools(inst, messages, tools, tool_choice, response_format) ==
    LET groq_kwargs == [messages |-> messages, model |-> inst.model,
                        tool_choice |-> tool_choice]
        with_tools == IF tools # None /\ tools[1] # <<>>
                      THEN groq_kwargs @@ [tools |-> tools[1]]
                      ELSE groq_kwargs
    IN IF response_format = Some("json")
       THEN with_tools @@ [response_format |-> [type |-> "json_object"]]
       ELSE with_tools

\* Mutant: response_format is always sent.
Groq_kwargs_always_response_format(inst, messages, tools, tool_choice, response_format) ==
    LET groq_kwargs == [messages |-> messages, model |-> inst.model,
                        tool_choice |-> tool_choice]
        with_tools == IF tools # None
                      THEN groq_kwargs @@ [tools |-> tools[1]]
                      ELSE groq_kwargs
    IN with_tools @@ [response_format |->
                         IF response_format = Some("json")
                         THEN [type |-> "json_object"] ELSE [type |-> "text"]]

\* groq_api.py: groq_kwargs of the Groq loop.
Groq_kwargs(inst, messages, tools, tool_choice, response_format) ==
    LET groq_kwargs == [messages |-> messages, model |-> inst.model,
                        tool_choice |-> tool_choice]
        with_tools == IF tools # None
                      THEN groq_kwargs @@ [tools |-> tools[1]]
                      ELSE groq_kwargs
    IN IF response_format = Some("json")
       THEN with_tools @@ [response_format |-> [type |-> "json_object"]]
       ELSE with_tools

\* ollama_api.py: the arguments of chat.completions.create.
Ollama_kwargs(inst, messages) ==
    [model |-> inst.model, messages |-> messages]

\* Python's f"Bearer {api_key}"
Bearer(api_key) ==
    IF api_key = None THEN "Bearer None" ELSE "Bearer " \o api_key[1]

\* openrouter_api.py: url, headers and request_data of the POST; data is the
\* JSON object json.dumps(request_data) writes, key for key.
OpenRouter_request(inst, messages, tools) ==
    LET url == "https://openrouter.ai/api/v1/chat/completions"
        headers == [Authorization |-> Bearer(inst._api_key)]
        request_data == [model |-> inst.model, messages |-> messages,
                         repetition_penalty |-> "1.5"]
    IN [method |-> "POST", url |-> url, headers |-> headers,
        data |-> IF tools # None /\ tools[1] # <<>>
                 THEN request_data @@ [tools |-> tools[1]]
                 ELSE request_data]

\* abc.py: LlmApi.response_from_messages, up to the first transport call:
\* the adapter's conversions and the request it is about to send;
\* openrouter_api.py: OpenRouterAPI.response_from_messages, up to the POST
\* (it takes neither tool_choice nor response_format).  prompt is None, or
\* the arguments of the response_from_prompt call this call comes from.
EnterCall(prompt, messages, tools, tool_choice, tag, response_format) ==
    /\ self # None
    /\ call.pc \in Rest
    /\ Budget
    /\ cls = "OpenRouterAPI" => tool_choice = "auto" /\ response_format = None
    /\ LET c == [IdleCall EXCEPT
                   !.pc = "create",
                   !.try_number = IF cls \in {"AnthropicApi", "GroqApi"} THEN 1 ELSE 0,
                   !.retry_delay = IF cls \in {"AnthropicApi", "GroqApi"}
                                   THEN retry_delay ELSE 0,
                   !.total_before = total_cost,
                   !.tag = tag,
                   !.prompt = prompt,
                   !.args = Some([messages |-> messages, tools |-> tools,
                                  tool_choice |-> tool_choice, tag |-> tag,
                                  response_format |-> response_format])]
           Send(request) ==
               /\ call' = [c EXCEPT !.request = Some(request)]
               /\ UNCHANGED <<pkg, cls, env, ctor, self, usage_log, n_raised, xl, threads>>
       IN CASE cls = "AnthropicApi" ->
                 LET converted_tools == _convert_tools_to_anthropic_format(tools)
                     converted_tool_choice ==
                         _convert_tool_choice_to_anthropic_format(tool_choice)
                     extracted == _extract_system_messages(messages, <<>>, <<>>)
                     non_system_messages ==
                         _convert_message_name_fields(extracted.other_messages, <<>>)
                 IN IF converted_tools.raised # None
                    THEN Raise(c, converted_tools.raised[1])
                    ELSE Send(Anthropic_completion_kwargs(
                                  self[1], non_system_messages,
                                  extracted.system_prompt, tools,
                                  converted_tools.value, converted_tool_choice))
            [] cls = "GroqApi" ->
                 Send(Groq_kwargs(self[1], messages, tools, tool_choice,
                                  response_format))
            [] cls = "OllamaApi" -> Send(Ollama_kwargs(self[1], messages))
            [] cls = "OpenRouterAPI" ->
                 Send(OpenRouter_request(self[1], messages, tools))

\* A caller invokes response_from_messages.
StartCallArgs(messages, tools, tool_choice, tag, response_format) ==
    EnterCall(None, messages, tools, tool_choice, tag, response_format)

\* A completion call that passes messages and a tag only.
StartCall(tag) ==
    StartCallArgs(DefaultMessages, None, "auto", tag, None)

\* Mutant: response_format is not passed on.
response_from_prompt_drops_response_format(prompt, tag, response_format) ==
    [messages |-> <<[role |-> "user", content |-> prompt]>>,
     tools |-> None, tool_choice |-> "auto",
     tag |-> tag, response_format |-> None]

\* abc.py: LlmApi.response_from_prompt: the arguments it hands to
\* response_from_messages, the defaults of the parameters it leaves out
\* included.
response_from_prompt(prompt, tag, response_format) ==
    [messages |-> <<[role |-> "user", content |-> prompt]>>,
     tools |-> None, tool_choice |-> "auto",
     tag |-> tag, response_format |-> response_format]

\* src/llm_api/abc.py: LlmApi.response_from_prompt of the older tree, which
\* has no response_format.
Legacy_response_from_prompt(prompt, tag) ==
    [messages |-> <<[role |-> "user", content |-> prompt]>>,
     tools |-> None, tool_choice |-> "auto",
     tag |-> tag, response_format |-> None]

\* A caller invokes response_from_prompt.
PromptCall(prompt, tag, response_format) ==
    /\ pkg = "src.llm_api" => response_format = None
    /\ LET a == IF pkg = "src.llm_api"
                THEN Legacy_response_from_prompt(prompt, tag)
                ELSE response_from_prompt(prompt, tag, response_format)
       IN EnterCall(Some([prompt |-> prompt, tag |-> tag,
                          response_format |-> response_format]),
                    a.messages, a.tools, a.tool_choice, a.tag,
                    a.response_format)

\* abc.py: LlmApi.response_from_prompt returns what response_from_messages
\* returned; nothing when the caller did not go through it.
response_from_prompt_result(c, response) ==
    IF c.prompt = None THEN None ELSE Some(response)

\* abc.py: LlmApi.response_from_messages after the implementation returned
\* (response, usage): handle_usage, then return response.
Return(c, response, usage) ==
    /\ self' = Some(handle_usage(self[1], usage.input_tokens,
                                 usage.output_tokens, usage.cost, usage.tag))
    /\ call' = [c EXCEPT !.pc = "returned",
                         !.handle_usage_calls = @ + 1,
                         !.usage = Some(usage),
                         !.response = Some(response),
                         !.result = response_from_prompt_result(c, response)]
    /\ usage_log' = Append(usage_log, usage.cost)
    /\ UNCHANGED <<pkg, cls, env, ctor, n_raised, xl, threads>>

\* anthropic_api.py: one pass of the while loop of
\* AnthropicApi._response_from_messages_implementation, and what follows it.
AnthropicAttempt(outcome) ==
    /\ cls = "AnthropicApi"
    /\ call.pc = "create"
    /\ LET c == [call EXCEPT !.attempts = @ + 1,
                             !.outcomes = Append(@, outcome)]
       IN IF outcome.type = "ok"
          THEN Return([c EXCEPT !.warnings =
                                    @ \o Anthropic_parse_usage_warnings(self[1])],
                      _parse_content(outcome.content,
                                     c.args[1].response_format),
                      Anthropic_parse_usage(self[1], outcome, c.tag))
          ELSE IF outcome.error \in AnthropicCaught
               THEN IF c.try_number >= max_tries
                    THEN Raise([c EXCEPT !.warnings =
                                   Append(@, RetryingWarning(c.retry_delay))],
                               outcome.error)
                    ELSE /\ call' = [c EXCEPT !.pc = "sleep",
                                              !.warnings =
                                   Append(@, RetryingWarning(c.retry_delay)),
                                              !.sleeps = Append(@, c.retry_delay)]
                         /\ UNCHANGED <<pkg, cls, env, ctor, self, usage_log,
                                        n_raised, xl, threads>>
               ELSE Raise(c, outcome.error)

\* groq_api.py: one pass of the while loop of
\* GroqApi._response_from_messages_implementation, and what follows it.
GroqAttempt(outcome) ==
    /\ cls = "GroqApi"
    /\ call.pc = "create"
    /\ LET c == [call EXCEPT !.attempts = @ + 1,
                             !.outcomes = Append(@, outcome)]
       IN IF outcome.type = "ok"
          THEN IF outcome.usage = None
               THEN Raise(c, "AttributeError")
               ELSE Return(c, "text", Groq_parse_usage(outcome, c.tag))
          ELSE IF outcome.error \in GroqCaught
               THEN IF c.try_number >= max_tries
                    THEN Raise([c EXCEPT !.warnings =
                                   Append(@, RetryingWarning(c.retry_delay))],
                               outcome.error)
                    ELSE /\ call' = [c EXCEPT !.pc = "sleep",
                                              !.warnings =
                                   Append(@, RetryingWarning(c.retry_delay)),
                                              !.sleeps = Append(@, c.retry_delay)]
                         /\ UNCHANGED <<pkg, cls, env, ctor, self, usage_log,
                                        n_raised, xl, threads>>
               ELSE Raise(c, outcome.error)

\* Mutant: the delay is not doubled between tries.
AnthropicAfterSleep_no_doubling ==
    /\ cls = "AnthropicApi"
    /\ call.pc = "sleep"
    /\ call' = [call EXCEPT !.pc = "create",
                            !.try_number = @ + 1]
    /\ UNCHANGED <<pkg, cls, env, ctor, self, usage_log, n_raised, xl, threads>>

\* anthropic_api.py: time.sleep(retry_delay) returns; retry_delay *= 2;
\* try_number += 1; the loop goes round.
AnthropicAfterSleep ==
    /\ cls = "AnthropicApi"
    /\ call.pc = "sleep"
    /\ call' = [call EXCEPT !.pc = "create",
                            !.retry_delay = @ * 2,
                            !.try_number = @ + 1]
    /\ UNCHANGED <<pkg, cls, env, ctor, self, usage_log, n_raised, xl, threads>>

\* groq_api.py: the same three statements of the Groq loop.
GroqAfterSleep ==
    /\ cls = "GroqApi"
    /\ call.pc = "sleep"
    /\ call' = [call EXCEPT !.pc = "create",
                            !.retry_delay = @ * 2,
                            !.try_number = @ + 1]
    /\ UNCHANGED <<pkg, cls, env, ctor, self, usage_log, n_raised, xl, threads>>

\* ollama_api.py: OllamaApi._response_from_messages_implementation: one
\* transport call outside any try; parse_usage is called without the tag.
OllamaAttempt(outcome) ==
    /\ cls = "OllamaApi"
    /\ call.pc = "create"
    /\ LET c == [call EXCEPT !.attempts = @ + 1,
                             !.outcomes = Append(@, outcome)]
       IN IF outcome.type = "ok"
          THEN IF outcome.usage = None
               THEN Raise(c, "AttributeError")
               ELSE Return(c, "text", Ollama_parse_usage(outcome, None))
          ELSE Raise(c, outcome.error)

\* Mutant: a choice without a message yields the empty string.
OpenRouter_response_message_defaults(response_json) ==
    IF response_json.has_message
    THEN [raised |-> None, value |-> Some("text")]
    ELSE [raised |-> None, value |-> Some("")]

\* openrouter_api.py: the check for "message" in the first choice, and the
\* content that is returned.
OpenRouter_response_message(response_json) ==
    IF response_json.has_message
    THEN [raised |-> None, value |-> Some("text")]
    ELSE [raised |-> Some("ValueError"), value |-> None]

\* openrouter_api.py: OpenRouterAPI.response_from_messages from the POST on:
\* raise_for_status, handle_usage, then the check for a message.
OpenRouterAttempt(outcome) ==
    /\ cls = "OpenRouterAPI"
    /\ call.pc = "create"
    /\ LET c == [call EXCEPT !.attempts = @ + 1,
                             !.outcomes = Append(@, outcome)]
       IN IF outcome.type = "error"
          THEN Raise(c, outcome.error)
          ELSE LET inst == OpenRouter_handle_usage(self[1], outcome, c.tag)
                   d == [c EXCEPT !.handle_usage_calls = @ + 1]
                   response_message == OpenRouter_response_message(outcome)
               IN IF response_message.raised = None
                  THEN /\ self' = Some(inst)
                       /\ call' = [d EXCEPT !.pc = "returned",
                                            !.response = response_message.value,
                                            !.result =
                                       response_from_prompt_result(
                                           d, response_message.value[1])]
                       /\ usage_log' = Append(usage_log,
                                              OpenRouterReportedCost(outcome))
                       /\ UNCHANGED <<pkg, cls, env, ctor, n_raised, xl, threads>>
                  ELSE /\ self' = Some(inst)
                       /\ call' = [d EXCEPT !.pc = "raised",
                                            !.error = response_message.raised]
                       /\ n_raised' = n_raised + 1
                       /\ UNCHANGED <<pkg, cls, env, ctor, usage_log, xl, threads>>

InitClient ==
    /\ pkg \in Packages
    /\ cls \in Adapters
    /\ pkg = "src.llm_api" => cls = "OpenRouterAPI"
    /\ env \in EnvValues
    /\ ctor = [result |-> "pending", env |-> None, base_url |-> None]
    /\ self = None
    /\ call = IdleCall
    /\ usage_log = <<>>
    /\ n_raised = 0
    /\ threads = NoThreads

Init ==
    /\ InitClient
    /\ xl = NoTranslation

Next ==
    \/ \E model \in Models, base_url \in BaseUrls : Construct(model, base_url)
    \/ \E v \in {None} : SetEnv(v)
    \/ \E cost \in {None} \cup {Some(c) : c \in CostValues} :
          DirectHandleUsage(1, 2, cost, None)
    \/ \E tag \in Tags : StartCall(tag)
    \/ \E outcome \in AnthropicOutcomes : AnthropicAttempt(outcome)
    \/ \E outcome \in CompletionOutcomes : GroqAttempt(outcome)
    \/ \E outcome \in CompletionOutcomes : OllamaAttempt(outcome)
    \/ \E outcome \in OpenRouterOutcomes : OpenRouterAttempt(outcome)
    \/ AnthropicAfterSleep
    \/ GroqAfterSleep

Spec == Init /\ [][Next]_vars

\* One completion call on a constructed instance of each adapter, for every
\* combination of arguments and every provider response within the bounds.
Prompts == {"A", "B"}

InitRequest ==
    /\ cls \in Adapters
    /\ pkg = IF cls = "OpenRouterAPI" THEN "src.llm_api" ELSE "llm_api"
    /\ env = Some("mock_api_key")
    /\ ctor = [result |-> "ok", env |-> env,
               base_url |-> IF cls = "OllamaApi"
                            THEN Some("http://localhost") ELSE None]
    /\ \E model \in Models :
          self = CASE cls = "AnthropicApi" -> AnthropicApi__init__(model, env)[2]
                   [] cls = "GroqApi" -> GroqApi__init__(model, env)[2]
                   [] cls = "OllamaApi" ->
                        OllamaApi__init__(model, ctor.base_url, env)[2]
                   [] cls = "OpenRouterAPI" -> OpenRouterAPI__init__(model, env)[2]
    /\ call = IdleCall
    /\ usage_log = <<>>
    /\ n_raised = 0
    /\ xl = NoTranslation
    /\ threads = NoThreads

FirstCall == call.pc = "idle" /\ usage_log = <<>> /\ n_raised = 0

NextRequest ==
    \/ \E messages \in RequestMessages, tools \in ToolLists,
          tool_choice \in ToolChoices, tag \in Tags,
          response_format \in ResponseFormats :
          FirstCall /\ StartCallArgs(messages, tools, tool_choice, tag,
                                     response_format)
    \/ \E prompt \in Prompts, tag \in Tags, response_format \in ResponseFormats :
          FirstCall /\ PromptCall(prompt, tag, response_format)
    \/ \E outcome \in AnthropicOutcomesWide : AnthropicAttempt(outcome)
    \/ \E outcome \in CompletionOutcomes : GroqAttempt(outcome)
    \/ \E outcome \in CompletionOutcomes : OllamaAttempt(outcome)
    \/ \E outcome \in OpenRouterOutcomes : OpenRouterAttempt(outcome)
    \/ AnthropicAfterSleep
    \/ GroqAfterSleep

SpecRequest == InitRequest /\ [][NextRequest]_vars

\* The translation alone, on an Anthropic client just constructed, for every
\* message list and tool choice within the bounds.
InitTranslate ==
    /\ pkg = "llm_api"
    /\ cls = "AnthropicApi"
    /\ env = Some("mock_api_key")
    /\ ctor = [result |-> "ok", env |-> env, base_url |-> None]
    /\ self = AnthropicApi__init__("test", env)[2]
    /\ call = IdleCall
    /\ usage_log = <<>>
    /\ n_raised = 0
    /\ \E messages \in MessageLists, tool_choice \in ToolChoices :
          xl = [pc |-> "args", messages |-> messages, tool_choice |-> tool_choice]
    /\ threads = NoThreads

NextTranslate == Translate

SpecTranslate == InitTranslate /\ [][NextTranslate]_vars

\* Several threads each finish a completion call on one instance and run
\* handle_usage with the cost of their Usage.  self.total_cost += cost is
\* not atomic: the attribute is loaded, the sum is computed, the attribute
\* is stored, and another thread can run in between.
Threads == 1..NThreads
ThreadCosts == {None} \cup {Some(c) : c \in CostValues}

\* abc.py: handle_usage, the load of self.total_cost in the += statement.
handle_usage_load(inst) == inst.total_cost

\* Mutant: the store writes the cost alone.
handle_usage_store_assigns(inst, loaded, cost) ==
    [inst EXCEPT !.total_cost = cost]

\* abc.py: handle_usage, the store that ends the += statement.
handle_usage_store(inst, loaded, cost) ==
    [inst EXCEPT !.total_cost = loaded + cost]

\* A thread enters handle_usage: nothing to do when cost is None, else it
\* loads total_cost.  overlapped records that another thread was between its
\* load and its store at that moment.
ThreadLoad(t, cost) ==
    /\ threads[t].pc = "ready"
    /\ IF cost = None
       THEN /\ threads' = [threads EXCEPT ![t].pc = "done"]
            /\ usage_log' = Append(usage_log, cost)
       ELSE /\ threads' = [threads EXCEPT
                              ![t].pc = "loaded",
                              ![t].cost = cost,
                              ![t].loaded = handle_usage_load(self[1]),
                              ![t].overlapped =
                                  \E u \in Threads \ {t} :
                                      threads[u].pc = "loaded"]
            /\ UNCHANGED usage_log
    /\ UNCHANGED <<pkg, cls, env, ctor, self, call, n_raised, xl>>

\* The thread stores the sum and leaves handle_usage.
ThreadStore(t) ==
    /\ threads[t].pc = "loaded"
    /\ self' = Some(handle_usage_store(self[1], threads[t].loaded,
                                       threads[t].cost[1]))
    /\ threads' = [threads EXCEPT ![t].pc = "done"]
    /\ usage_log' = Append(usage_log, threads[t].cost)
    /\ UNCHANGED <<pkg, cls, env, ctor, call, n_raised, xl>>

InitThreads ==
    /\ pkg = "llm_api"
    /\ cls \in {"AnthropicApi", "GroqApi", "OllamaApi"}
    /\ env = Some("mock_api_key")
    /\ ctor = [result |-> "ok", env |-> env,
               base_url |-> IF cls = "OllamaApi"
                            THEN Some("http://localhost") ELSE None]
    /\ self = LlmApi__init__("test", "API_KEY", 5, env)[2]
    /\ call = IdleCall
    /\ usage_log = <<>>
    /\ n_raised = 0
    /\ xl = NoTranslation
    /\ threads = [t \in Threads |->
                     [pc |-> "ready", cost |-> None, loaded |-> 0,
                      overlapped |-> FALSE]]

NextThreads ==
    \/ \E t \in Threads, cost \in ThreadCosts : ThreadLoad(t, cost)
    \/ \E t \in Threads : ThreadStore(t)

SpecThreads == InitThreads /\ [][NextThreads]_vars

\* ================================================================ claims

RECURSIVE SumCosts(_)
\* The sum of the costs in a log, an absent cost counting for nothing.
SumCosts(log) ==
    IF log = <<>> THEN 0
    ELSE (IF Head(log) = None THEN 0 ELSE Head(log)[1]) + SumCosts(Tail(log))

\* The transient class of the retry policy: rate limit, timeout, bad request.
TransientClass == {"RateLimitError", "APITimeoutError", "BadRequestError"}
RetryingAdapters == {"AnthropicApi", "GroqApi"}
Finished == call.pc \in {"returned", "raised"}

\* C1: after any sequence of successful completion calls and direct
\* handle_usage calls on one instance, total_cost is the sum of the costs of
\* those calls, counted from 0.
C1_TotalCostIsSumOfCosts ==
    (self # None /\ n_raised = 0 /\ call.pc \in Rest)
        => total_cost = SumCosts(usage_log)

\* C1 witness: calls costing 3, 0 and 5 have left a total of 8.
C1_Witness ==
    /\ self # None
    /\ n_raised = 0
    /\ usage_log = <<Some(3), Some(0), Some(5)>>
    /\ total_cost = 8

\* C2: a completion call that returned ran handle_usage exactly once; one that
\* raised never ran it and left total_cost as it was.
C2_HandleUsageOncePerReturnedCall ==
    /\ call.pc = "returned" => call.handle_usage_calls = 1
    /\ call.pc = "raised" =>
          /\ call.handle_usage_calls = 0
          /\ total_cost = call.total_before

\* C3: a call of a retrying adapter whose every transport attempt raised a
\* transient error made 3 attempts, slept 30 then 60, and raised the error of
\* the last attempt.
C3_TransientErrorsExhaustRetries ==
    (/\ cls \in RetryingAdapters
     /\ Finished
     /\ \A i \in 1..Len(call.outcomes) :
           /\ call.outcomes[i].type = "error"
           /\ call.outcomes[i].error \in TransientClass)
        => /\ call.attempts = 3
           /\ Len(call.outcomes) = 3
           /\ call.sleeps = <<30, 60>>
           /\ call.pc = "raised"
           /\ call.error = Some(call.outcomes[3].error)
           /\ call.handle_usage_calls = 0

\* C3 witness: three rate-limit errors in a row ended an Anthropic call.
C3_Witness ==
    /\ cls = "AnthropicApi"
    /\ call.pc = "raised"
    /\ call.outcomes = <<Error("RateLimitError"), Error("RateLimitError"),
                         Error("RateLimitError")>>

\* C4: an error outside the transient class is never retried: the attempt
\* that raised it is the last one, the call raises that very error, and no
\* sleep follows it; raised by the first attempt, it ends the call after
\* 1 attempt and 0 sleeps.
C4_NonTransientNotRetried ==
    cls \in RetryingAdapters =>
        \A i \in 1..Len(call.outcomes) :
            (/\ call.outcomes[i].type = "error"
             /\ call.outcomes[i].error \notin TransientClass)
                => /\ i = Len(call.outcomes)
                   /\ call.attempts = i
                   /\ Len(call.sleeps) = i - 1
                   /\ call.pc = "raised"
                   /\ call.error = Some(call.outcomes[i].error)
                   /\ (i = 1 => call.attempts = 1 /\ call.sleeps = <<>>)

\* C4 witness: a connection error on the first attempt ended a Groq call.
C4_Witness ==
    /\ cls = "GroqApi"
    /\ call.pc = "raised"
    /\ call.outcomes = <<Error("APIConnectionError")>>
    /\ call.sleeps = <<>>

\* C5: whenever the credential variable was unset or empty when the
\* constructor ran, the constructor raised ConfigurationError and left no
\* instance.
C5_MissingCredentialFailsConstruction ==
    (ctor.result # "pending" /\ ctor.env \in {None, Some("")})
        => ctor.result = "ConfigurationError" /\ self = None

\* C6: a handle_usage invocation whose cost is absent leaves total_cost as
\* it was.
C6_AbsentCostLeavesTotal ==
    [][(self # None /\ usage_log' = Append(usage_log, None))
          => self' # None /\ self'[1].total_cost = self[1].total_cost]_vars

\* C6 witness: an absent cost was accounted on a client whose total was 3.
C6_Witness ==
    /\ self # None
    /\ usage_log = <<Some(3), None>>
    /\ total_cost = 3

\* C7: total_cost is 0 when the constructor returns, and no step lowers it.
C7_TotalCostStartsAtZeroAndNeverDrops ==
    [][/\ (ctor.result = "pending" /\ self' # None) => self'[1].total_cost = 0
       /\ self # None => self' # None /\ self'[1].total_cost >= self[1].total_cost]_vars

\* C7 witness: an OpenRouter client has added provider-reported costs 5 and 3.
C7_Witness ==
    /\ cls = "OpenRouterAPI"
    /\ self # None
    /\ usage_log = <<Some(5), Some(3)>>
    /\ total_cost = 8

\* The system messages, and the others, of a list, by position.
IsSystem(m) == m.role = "system"
IsNotSystem(m) == m.role # "system"

RECURSIVE NewlineJoined(_)
\* Strings joined by newlines, built from the right.
NewlineJoined(strings) ==
    IF strings = <<>> THEN ""
    ELSE IF Len(strings) = 1 THEN strings[1]
    ELSE NewlineJoined(SubSeq(strings, 1, Len(strings) - 1))
             \o "\n" \o strings[Len(strings)]

ContentsOf(messages) == [i \in 1..Len(messages) |-> messages[i].content]

\* C8: the system field is the newline-join of the contents of the system
\* messages in order, and the other messages are exactly the non-system
\* messages in order; none is lost or duplicated.
C8_SystemMessagesExtracted ==
    xl.pc = "translated" =>
        /\ xl.system_prompt =
               NewlineJoined(ContentsOf(SelectSeq(xl.messages, IsSystem)))
        /\ xl.other_messages = SelectSeq(xl.messages, IsNotSystem)
        /\ Len(xl.other_messages) + Len(SelectSeq(xl.messages, IsSystem))
               = Len(xl.messages)

\* C8 witness: [system A, system B, user B] gave system "A\nB" and [user B].
C8_Witness ==
    /\ xl.pc = "translated"
    /\ xl.messages = <<[role |-> "system", content |-> "A"],
                       [role |-> "system", content |-> "B"],
                       [role |-> "user", content |-> "B"]>>
    /\ xl.system_prompt = "A\nB"
    /\ xl.other_messages = <<[role |-> "user", content |-> "B"]>>

\* C9: name folding keeps the number and order of the non-system messages;
\* a message with a name becomes one with the same role, content
\* "{name}: {content}" and no name; a message without a name is unchanged.
C9_NameFoldedIntoContent ==
    xl.pc = "translated" =>
        /\ Len(xl.non_system_messages) = Len(xl.other_messages)
        /\ \A i \in 1..Len(xl.other_messages) :
              LET m == xl.other_messages[i]
                  t == xl.non_system_messages[i]
              IN IF "name" \in DOMAIN m
                 THEN /\ DOMAIN t = {"role", "content"}
                      /\ t.role = m.role
                      /\ t.content = m.name \o ": " \o m.content
                 ELSE t = m

\* C9 witness: a named user message and an unnamed assistant message.
C9_Witness ==
    /\ xl.pc = "translated"
    /\ xl.messages = <<[role |-> "user", content |-> "A", name |-> "Erkki"],
                       [role |-> "assistant", content |-> "B"]>>
    /\ xl.non_system_messages = <<[role |-> "user", content |-> "Erkki: A"],
                                  [role |-> "assistant", content |-> "B"]>>

\* C10: "required" maps to {"type": "any"}; "auto" and "none" both map to
\* {"type": "auto"}; the three modes are all there is.
C10_ToolChoiceMapping ==
    xl.pc = "translated" =>
        /\ xl.tool_choice \in {"auto", "required", "none"}
        /\ xl.tool_choice = "required" =>
              xl.converted_tool_choice = [type |-> "any"]
        /\ xl.tool_choice \in {"auto", "none"} =>
              xl.converted_tool_choice = [type |-> "auto"]

\* C10 witness: "none" was translated to {"type": "auto"}.
C10_Witness ==
    /\ xl.pc = "translated"
    /\ xl.tool_choice = "none"
    /\ xl.converted_tool_choice = [type |-> "auto"]

\* ---- Completion calls: responses, requests, usage ----

LastOutcome == call.outcomes[Len(call.outcomes)]
Returned(adapter) ==
    cls = adapter /\ call.pc = "returned" /\ LastOutcome.type = "ok"

\* Reading a JSON text back: white space dropped, then the array cut into its
\* top-level elements.
IsSpace(t) == t \in {Newline(level) : level \in 0..3}
NoSpace(tokens) == SelectSeq(tokens, LAMBDA t : ~IsSpace(t))

RECURSIVE SplitTop(_, _, _, _)
SplitTop(tokens, depth, current, done) ==
    IF tokens = <<>>
    THEN Append(done, current)
    ELSE LET t == Head(tokens)
         IN IF t = "," /\ depth = 0
            THEN SplitTop(Tail(tokens), 0, <<>>, Append(done, current))
            ELSE SplitTop(Tail(tokens),
                          depth + (IF t = "{" THEN 1
                                   ELSE IF t = "}" THEN -1 ELSE 0),
                          Append(current, t), done)

ArrayElements(text) ==
    LET tokens == NoSpace(text)
    IN IF tokens = <<"[]">>
       THEN <<>>
       ELSE SplitTop(SubSeq(tokens, 2, Len(tokens) - 1), 0, <<>>, <<>>)

IsArray(text) ==
    LET tokens == NoSpace(text)
    IN \/ tokens = <<"[]">>
       \/ /\ Len(tokens) >= 2
          /\ tokens[1] = "["
          /\ tokens[Len(tokens)] = "]"

HasField(element, key, value) ==
    \E i \in 1..(Len(element) - 2) :
        /\ element[i] = Quote(key)
        /\ element[i + 1] = ": "
        /\ element[i + 2] = Quote(value)

ElementIsBlock(element, block) ==
    /\ Len(element) >= 2
    /\ element[1] = "{"
    /\ element[Len(element)] = "}"
    /\ HasField(element, "type", block.type)
    /\ block.type = "text" => HasField(element, "text", block.text)
    /\ block.type = "tool_use" => /\ HasField(element, "name", block.name)
                                 /\ HasField(element, "id", block.id)

IsArrayOfBlocks(text, content) ==
    /\ IsArray(text)
    /\ Len(ArrayElements(text)) = Len(content)
    /\ \A i \in 1..Len(content) :
          ElementIsBlock(ArrayElements(text)[i], content[i])

PlainText(content, response_format) ==
    /\ response_format # Some("json")
    /\ Len(content) = 1
    /\ content[1].type = "text"

\* C11: an Anthropic call returns the text of the response verbatim exactly
\* when JSON was not requested and the response is one single text block;
\* otherwise it returns a JSON array with one element per block, in order.
C11_ParseContent ==
    Returned("AnthropicApi") =>
        LET content == LastOutcome.content
            response_format == call.args[1].response_format
        IN IF PlainText(content, response_format)
           THEN call.response = Some(<<content[1].text>>)
           ELSE /\ IsArrayOfBlocks(call.response[1], content)
                /\ \A i \in 1..Len(content) :
                      content[i].type = "text" =>
                          call.response # Some(<<content[i].text>>)

\* C11 witness: JSON was requested and the response is one text block.
C11_Witness ==
    /\ Returned("AnthropicApi")
    /\ call.args[1].response_format = Some("json")
    /\ LastOutcome.content = <<TextBlock("A")>>
    /\ Len(ArrayElements(call.response[1])) = 1

\* An Anthropic call whose last request the provider answered.
AnthropicAnswered ==
    /\ cls = "AnthropicApi"
    /\ call.pc \in {"returned", "raised"}
    /\ call.outcomes # <<>>
    /\ LastOutcome.type = "ok"

\* C12: for claude-3-5-sonnet-20240620 the cost of a returned Anthropic call
\* is input_tokens / 1,000,000 * 3 + output_tokens / 1,000,000 * 15 (33 for
\* one million in and two million out), and the token counts of the Usage are
\* the provider's.
C12_AnthropicCost ==
    (Returned("AnthropicApi") /\ self[1].model = "claude-3-5-sonnet-20240620") =>
        LET reported == LastOutcome.usage
            u == call.usage[1]
        IN /\ u.input_tokens = reported.input_tokens
           /\ u.output_tokens = reported.output_tokens
           /\ u.cost = Some((reported.input_tokens \div MTOK) * 3
                            + (reported.output_tokens \div MTOK) * 15)
           /\ (reported.input_tokens = MTOK /\ reported.output_tokens = 2 * MTOK)
                 => u.cost = Some(33)

\* C12 witness: one million tokens in, two million out, cost 33.
C12_Witness ==
    /\ Returned("AnthropicApi")
    /\ self[1].model = "claude-3-5-sonnet-20240620"
    /\ LastOutcome.usage = [input_tokens |-> MTOK, output_tokens |-> 2 * MTOK]
    /\ call.usage[1].cost = Some(33)
    /\ total_cost = 33

\* C13: an Anthropic call for a model without a price, once the provider
\* answered, returns; its Usage has cost 0 and the provider's token counts,
\* and the warning about the missing price was logged.
C13_UnpricedModelCostsNothing ==
    (AnthropicAnswered /\ self[1].model = "test") =>
        /\ call.pc = "returned"
        /\ call.usage[1].cost = Some(0)
        /\ call.usage[1].input_tokens = LastOutcome.usage.input_tokens
        /\ call.usage[1].output_tokens = LastOutcome.usage.output_tokens
        /\ \E i \in 1..Len(call.warnings) :
              call.warnings[i] = [kind |-> "no_pricing", model |-> "test"]
        /\ total_cost = call.total_before

\* C13 witness: model "test", two million tokens in and one million out.
C13_Witness ==
    /\ AnthropicAnswered
    /\ self[1].model = "test"
    /\ LastOutcome.usage = [input_tokens |-> 2 * MTOK, output_tokens |-> MTOK]
    /\ call.usage[1].cost = Some(0)
    /\ call.warnings # <<>>
\* An OpenRouter call whose POST was answered with a 2xx response.
OpenRouterAnswered ==
    /\ cls = "OpenRouterAPI"
    /\ call.pc \in {"returned", "raised"}
    /\ call.outcomes # <<>>
    /\ LastOutcome.type = "ok"

\* C14: an OpenRouter call whose response's first choice has no message
\* raises ValueError after its single request: no retry, no sleep, and no
\* string (default or empty) is returned.
C14_NoMessageRaisesValueError ==
    (OpenRouterAnswered /\ ~LastOutcome.has_message) =>
        /\ call.pc = "raised"
        /\ call.error = Some("ValueError")
        /\ call.attempts = 1
        /\ call.sleeps = <<>>
        /\ call.response = None
        /\ call.result = None

\* C14 witness: a response with usage and no message ended in ValueError.
C14_Witness ==
    /\ OpenRouterAnswered
    /\ ~LastOutcome.has_message
    /\ LastOutcome.usage # None
    /\ call.pc = "raised"
    /\ call.error = Some("ValueError")
\* C15: an OpenRouter call makes one POST to
\* https://openrouter.ai/api/v1/chat/completions with a bearer-token
\* Authorization header, and the JSON body has the keys model and messages,
\* tools only when tools were supplied, and no other key.
C15_OpenRouterRequestShape ==
    (cls = "OpenRouterAPI" /\ call.request # None) =>
        LET request == call.request[1]
            tools == call.args[1].tools
        IN /\ request.method = "POST"
           /\ request.url = "https://openrouter.ai/api/v1/chat/completions"
           /\ request.headers = [Authorization |-> "Bearer mock_api_key"]
           /\ call.pc \in {"returned", "raised"} => call.attempts = 1
           /\ {"model", "messages"} \subseteq DOMAIN request.data
           /\ DOMAIN request.data \subseteq {"model", "messages", "tools"}
           /\ "tools" \in DOMAIN request.data => tools # None
\* The request of the call in progress was built and handed to the transport.
RequestSent(adapter) == cls = adapter /\ call.request # None

\* C16: an Anthropic or Groq request has a tools field exactly when the
\* caller's tools is not None; Groq forwards the tool list and the caller's
\* tool_choice as they are; Anthropic sends tool_choice only with tools.
C16_ToolsForwarded ==
    /\ \A adapter \in {"AnthropicApi", "GroqApi"} :
          RequestSent(adapter) =>
              ("tools" \in DOMAIN call.request[1]
                  <=> call.args[1].tools # None)
    /\ (RequestSent("GroqApi") /\ call.args[1].tools # None) =>
          /\ call.request[1].tools = call.args[1].tools[1]
          /\ call.request[1].tool_choice = call.args[1].tool_choice
    /\ RequestSent("AnthropicApi") =>
          ("tool_choice" \in DOMAIN call.request[1]
              <=> "tools" \in DOMAIN call.request[1])

\* C16 witness: Groq was given an empty tool list and tool_choice "required".
C16_Witness ==
    /\ RequestSent("GroqApi")
    /\ call.args[1].tools = Some(<<>>)
    /\ call.request[1].tools = <<>>
    /\ call.request[1].tool_choice = "required"

\* C17: a Groq request has response_format {"type": "json_object"} exactly
\* when the caller asked for "json" and no response_format field otherwise;
\* an Anthropic request never has the field.
C17_ResponseFormatForwarded ==
    /\ RequestSent("GroqApi") =>
          /\ "response_format" \in DOMAIN call.request[1]
                <=> call.args[1].response_format = Some("json")
          /\ "response_format" \in DOMAIN call.request[1] =>
                call.request[1].response_format = [type |-> "json_object"]
    /\ RequestSent("AnthropicApi") =>
          "response_format" \notin DOMAIN call.request[1]

\* C17 witness: a Groq call that asked for JSON was answered.
C17_Witness ==
    /\ RequestSent("GroqApi")
    /\ call.args[1].response_format = Some("json")
    /\ call.request[1].response_format = [type |-> "json_object"]
    /\ call.pc = "returned"

\* C18: response_from_prompt makes one response_from_messages call, with the
\* one-element list [{role: "user", content: prompt}], the same tag and the
\* same response_format, and returns what that call returned.
C18_ResponseFromPrompt ==
    (call.prompt # None /\ call.args # None) =>
        /\ call.args[1].messages =
              <<[role |-> "user", content |-> call.prompt[1].prompt]>>
        /\ call.args[1].tag = call.prompt[1].tag
        /\ call.args[1].response_format = call.prompt[1].response_format
        /\ call.pc = "returned" =>
              /\ call.result = call.response
              /\ call.result # None
              /\ call.handle_usage_calls = 1

\* C18 witness: a tagged prompt asking for JSON was answered through Groq.
C18_Witness ==
    /\ cls = "GroqApi"
    /\ call.prompt = Some([prompt |-> "B", tag |-> Some("test tag"),
                           response_format |-> Some("json")])
    /\ call.args[1].response_format = Some("json")
    /\ call.pc = "returned"
    /\ call.result = Some("text")
\* The provider answered the last request of a finished call with a
\* well-formed response.
Answered ==
    /\ call.pc \in {"returned", "raised"}
    /\ call.outcomes # <<>>
    /\ LastOutcome.type = "ok"
    /\ cls = "OpenRouterAPI" => LastOutcome.has_message

\* The usage part of a provider response, None when it reports none.
ReportedUsage ==
    IF cls = "AnthropicApi" THEN Some(LastOutcome.usage) ELSE LastOutcome.usage

ReportedInputTokens ==
    IF cls = "AnthropicApi"
    THEN ReportedUsage[1].input_tokens ELSE ReportedUsage[1].prompt_tokens

ReportedOutputTokens ==
    IF cls = "AnthropicApi"
    THEN ReportedUsage[1].output_tokens ELSE ReportedUsage[1].completion_tokens

\* C19: for every adapter, a call whose response reports no usage still
\* returns, with a Usage of 0 input and 0 output tokens; when usage is
\* reported the Usage carries the provider's counts.
C19_MissingUsageDefaultsToZero ==
    Answered =>
        /\ call.pc = "returned"
        /\ call.usage # None
        /\ ReportedUsage = None =>
              /\ call.usage[1].input_tokens = 0
              /\ call.usage[1].output_tokens = 0
        /\ ReportedUsage # None =>
              /\ call.usage[1].input_tokens = ReportedInputTokens
              /\ call.usage[1].output_tokens = ReportedOutputTokens

\* C20: for every adapter that builds a Usage, the Usage of a returned call
\* carries the tag the caller passed, an absent tag staying absent.
C20_TagReachesUsage ==
    (call.pc = "returned" /\ call.usage # None) =>
        call.usage[1].tag = call.tag
\* ---- Retry, failure and concurrency ----

\* Transient transport errors of the adapters without an SDK retry loop:
\* openai's rate-limit and timeout errors, HTTP 429 from requests.
OtherTransient == {"RateLimitError", "APITimeoutError", "HTTPError"}

\* C21: an Ollama or OpenRouter call whose every transport attempt raised a
\* transient error made 3 attempts with sleeps 30 then 60 before it re-raised
\* the error, as Anthropic and Groq calls do.
C21_UniformRetry ==
    (/\ cls \in {"OllamaApi", "OpenRouterAPI"}
     /\ Finished
     /\ call.outcomes # <<>>
     /\ \A i \in 1..Len(call.outcomes) :
           /\ call.outcomes[i].type = "error"
           /\ call.outcomes[i].error \in OtherTransient)
        => /\ call.attempts = 3
           /\ call.sleeps = <<30, 60>>
           /\ call.pc = "raised"
           /\ call.error = Some(LastOutcome.error)

\* C22: an Ollama call that is given tools raises a not-implemented error
\* before any transport call is made.
C22_OllamaToolsNotImplemented ==
    (/\ cls = "OllamaApi"
     /\ call.args # None
     /\ call.args[1].tools # None
     /\ call.args[1].tools[1] # <<>>)
        => /\ call.pc = "raised"
           /\ call.error = Some("NotImplementedError")
           /\ call.attempts = 0
           /\ call.request = None
RECURSIVE Pow2(_)
Pow2(n) == IF n = 0 THEN 1 ELSE 2 * Pow2(n - 1)

\* C23: an Anthropic or Groq call makes at most 3 transport attempts and at
\* most 2 sleeps, the i-th sleep being 30 * 2^(i-1); when attempt k is the
\* first that succeeds, the call made k attempts and k-1 sleeps, returned
\* that attempt's response, and ran handle_usage once.
C23_RetryLoopReturnsFirstSuccess ==
    (cls \in RetryingAdapters /\ call.outcomes # <<>>) =>
        /\ call.attempts <= 3
        /\ call.attempts = Len(call.outcomes)
        /\ Len(call.sleeps) <= 2
        /\ \A i \in 1..Len(call.sleeps) : call.sleeps[i] = 30 * Pow2(i - 1)
        /\ LastOutcome.type = "ok" =>
              /\ \A i \in 1..(Len(call.outcomes) - 1) :
                    call.outcomes[i].type = "error"
              /\ Len(call.sleeps) = call.attempts - 1
              /\ call.pc = "returned"
              /\ call.response # None
              /\ call.handle_usage_calls = 1
\* C24: a step of a completion call that ends the call in an error, or that
\* keeps it in its retry loop, leaves the instance (total_cost, model, api_key,
\* timeout) as it was; and the next call of a retrying adapter starts at
\* attempt 1 with delay 30, no attempt made and no sleep done.
C24_FailedCallLeavesNoTrace ==
    [][/\ (call' # call /\ call'.pc = "raised") => self' = self
       /\ (call.pc \in {"create", "sleep"} /\ call'.pc \in {"create", "sleep"})
             => self' = self
       /\ (call.pc \in Rest /\ call'.pc = "create" /\ cls \in RetryingAdapters)
             => /\ call'.try_number = 1
                /\ call'.retry_delay = 30
                /\ call'.attempts = 0
                /\ call'.sleeps = <<>>]_vars
AllDone == \A t \in Threads : threads[t].pc = "done"
OneAtATime == \A t \in Threads : ~threads[t].overlapped

\* C25: handle_usage is an unlocked read-modify-write of total_cost.  Once
\* every thread has finished its handle_usage, total_cost never exceeds the
\* sum of the costs, and it equals the sum whenever no thread loaded
\* total_cost while another was between its load and its store; the lost
\* update needs interleaved threads.
C25_LostUpdateNeedsInterleaving ==
    (threads # NoThreads /\ AllDone) =>
        /\ total_cost <= SumCosts(usage_log)
        /\ OneAtATime => total_cost = SumCosts(usage_log)

\* C25 witness: threads with costs 3 and 5 interleaved, every thread has
\* finished, and total_cost is less than the sum of the costs.
C25_Witness ==
    /\ threads # NoThreads
    /\ AllDone
    /\ \E t \in Threads, u \in Threads :
          threads[t].cost = Some(3) /\ threads[u].cost = Some(5)
    /\ ~OneAtATime
    /\ total_cost < SumCosts(usage_log)
\* C26: the Anthropic tool translation succeeds for every tool list, a tool
\* without a description included: the request carries one tool per input
\* tool, in order, with the tool's name and its parameters as input_schema,
\* and no tool list when tools is None.
C26_ToolTranslation ==
    (cls = "AnthropicApi" /\ call.args # None) =>
        LET tools == call.args[1].tools
        IN /\ call.request # None
           /\ tools = None => "tools" \notin DOMAIN call.request[1]
           /\ tools # None =>
                 /\ "tools" \in DOMAIN call.request[1]
                 /\ Len(call.request[1].tools) = Len(tools[1])
                 /\ \A i \in 1..Len(tools[1]) :
                       /\ call.request[1].tools[i].name
                             = tools[1][i].function.name
                       /\ call.request[1].tools[i].input_schema
                             = tools[1][i].function.parameters
====
